---- MODULE Spec2Model ----
(***************************************************************************)
(* Model of skills/cro-audit/scripts/generate_report.py: the three         *)
(* aggregators, generate_html and main.                                    *)
(*                                                                         *)
(* Representation.                                                         *)
(*  - A JSON object is a TLA+ record whose DOMAIN is the set of keys that  *)
(*    are present; dict.get(k, d) is Get(d, k, default).                   *)
(*  - A JSON array is a sequence.                                          *)
(*  - A numeric score is an integer number of QUARTERS (10 is 2.5, 12 is 3.0). *)
(*    Quarters and their sums are exact binary floats, so Python's round() *)
(*    sees the exact ties the model sees.                                  *)
(*  - A lens average (a float rounded to 2 decimals) is an integer number  *)
(*    of HUNDREDTHS (233 is 2.33).                                         *)
(*  - A page label is a sequence of one-character strings, so that         *)
(*    lower() and replace() are computed and not assumed.                  *)
(*  - The HTML text is a sequence of elements (records with a "kind");     *)
(*    nested markup is a nested sequence.                                  *)
(***************************************************************************)
EXTENDS Integers, Sequences, FiniteSets, TLC

VARIABLES
    pc,            \* position in main()
    input_file,    \* what is stored at args.input
    data,          \* main's data, generate_html's argument
    lens_avgs,     \* generate_html's local, line 251
    score_dist,    \* generate_html's local, line 252
    priority_dist, \* generate_html's local, line 253
    html,          \* the string generate_html returns
    out_file,      \* what is stored at args.output
    out_open,      \* the output file handle is open
    stdout,        \* the lines printed
    error          \* the exception that ended main, if any

vars == <<pc, input_file, data, lens_avgs, score_dist, priority_dist, html,
          out_file, out_open, stdout, error>>

(***************************************************************************)
(* Bounds                                                                  *)
(***************************************************************************)
MaxPages == 2
MaxFindings == 2
MaxTop == 6

(***************************************************************************)
(* Generic helpers                                                         *)
(***************************************************************************)
\* dict.get(k, default)
Get(d, k, default) == IF k \in DOMAIN d THEN d[k] ELSE default

\* all sequences over S of length 0..n
SeqUpTo(S, n) == UNION {[1..k -> S] : k \in 0..n}

RECURSIVE SumSeq(_)
SumSeq(s) == IF s = <<>> THEN 0 ELSE Head(s) + SumSeq(Tail(s))

RECURSIVE Concat(_)
Concat(ss) == IF ss = <<>> THEN <<>> ELSE Head(ss) \o Concat(Tail(ss))

Min(a, b) == IF a < b THEN a ELSE b
Max(a, b) == IF a > b THEN a ELSE b

\* rounding with ties away from zero upwards (round half up)
RoundHalfUp(num, den) ==
    LET q == num \div den
        r == num % den
    IN  IF 2 * r < den THEN q ELSE q + 1

\* Python round(): nearest integer to num/den (den > 0), ties to the even one
RoundHalfEven(num, den) ==
    LET q == num \div den
        r == num % den
    IN  IF 2 * r < den THEN q
        ELSE IF 2 * r > den THEN q + 1
        ELSE IF q % 2 = 0 THEN q ELSE q + 1

(***************************************************************************)
(* Data computation helpers (generate_report.py lines 69-102)              *)
(***************************************************************************)
\* the fixed lens list of the final comprehension, in its order
LensOrder == <<"clarity", "relevance", "friction", "anxiety", "urgency", "technical">>

\* every string that occurs as a lens in a modelled document: the key space
\* of the two defaultdicts (a key never written reads as 0)
LensStrings == {LensOrder[i] : i \in 1..Len(LensOrder)} \cup {"other"}

\* LensStep counting a finding only when it carries a score
LensStep_ScoredOnly(acc, f) ==
    LET lens == Get(f, "lens", "")
    IN  IF lens # ""
        THEN [totals |-> [acc.totals EXCEPT ![lens] = @ + Get(f, "score", 0)],
              counts |-> [acc.counts EXCEPT ![lens] =
                             @ + (IF "score" \in DOMAIN f THEN 1 ELSE 0)]]
        ELSE acc

\* body of the inner loop, lines 75-78
LensStep(acc, f) ==
    LET lens == Get(f, "lens", "")
    IN  IF lens # ""
        THEN [totals |-> [acc.totals EXCEPT ![lens] = @ + Get(f, "score", 0)],
              counts |-> [acc.counts EXCEPT ![lens] = @ + 1]]
        ELSE acc

RECURSIVE LensFindingsLoop(_, _)
LensFindingsLoop(fs, acc) ==
    IF fs = <<>> THEN acc
    ELSE LensFindingsLoop(Tail(fs), LensStep(acc, Head(fs)))

RECURSIVE LensPagesLoop(_, _)
LensPagesLoop(ps, acc) ==
    IF ps = <<>> THEN acc
    ELSE LensPagesLoop(Tail(ps),
                       LensFindingsLoop(Get(Head(ps), "findings", <<>>), acc))

\* round(totals[lens] / counts[lens], 2) in hundredths; totals are quarters
LensMean(total, count) ==
    IF count # 0 THEN RoundHalfEven(total * 25, count) ELSE 0

\* the returned dict, as the sequence of its items in insertion order
compute_lens_averages(pages) ==
    LET acc == LensPagesLoop(pages, [totals |-> [l \in LensStrings |-> 0],
                                     counts |-> [l \in LensStrings |-> 0]])
    IN  [i \in 1..Len(LensOrder) |->
            [lens |-> LensOrder[i],
             avg  |-> LensMean(acc.totals[LensOrder[i]], acc.counts[LensOrder[i]])]]

\* ScoreBucket without the clamp of line 89
ScoreBucket_NoClamp(f) == RoundHalfEven(Get(f, "score", 12), 4)

\* s = int(round(f.get("score", 3))); s = max(1, min(5, s)), score in quarters
ScoreBucket(f) ==
    LET s == RoundHalfEven(Get(f, "score", 12), 4)
    IN  Max(1, Min(5, s))

RECURSIVE ScoreFindingsLoop(_, _)
ScoreFindingsLoop(fs, dist) ==
    IF fs = <<>> THEN dist
    ELSE ScoreFindingsLoop(Tail(fs),
                           [dist EXCEPT ![ScoreBucket(Head(fs))] = @ + 1])

RECURSIVE ScorePagesLoop(_, _)
ScorePagesLoop(ps, dist) ==
    IF ps = <<>> THEN dist
    ELSE ScorePagesLoop(Tail(ps),
                        ScoreFindingsLoop(Get(Head(ps), "findings", <<>>), dist))

compute_score_distribution(pages) ==
    ScorePagesLoop(pages, [k \in 1..5 |-> 0])

Tiers == {"P0", "P1", "P2", "P3"}

\* body of the inner loop, lines 99-101
PriorityStep(dist, f) ==
    LET p == Get(f, "priority", "P2")
    IN  IF p \in DOMAIN dist THEN [dist EXCEPT ![p] = @ + 1] ELSE dist

RECURSIVE PriorityFindingsLoop(_, _)
PriorityFindingsLoop(fs, dist) ==
    IF fs = <<>> THEN dist
    ELSE PriorityFindingsLoop(Tail(fs), PriorityStep(dist, Head(fs)))

RECURSIVE PriorityPagesLoop(_, _)
PriorityPagesLoop(ps, dist) ==
    IF ps = <<>> THEN dist
    ELSE PriorityPagesLoop(Tail(ps),
                           PriorityFindingsLoop(Get(Head(ps), "findings", <<>>), dist))

compute_priority_distribution(pages) ==
    PriorityPagesLoop(pages, [t \in Tiers |-> 0])

(***************************************************************************)
(* Helpers imported from report_utils (the module is not part of the       *)
(* sources at hand; modelled from the specification, sections 4.2-4.3)     *)
(***************************************************************************)
\* image files that exist and are readable on the machine of the run
ReadableImages == {"desktop.png", "mobile.png"}

\* local image path -> embedded data URI; the empty string if the file is
\* absent or unreadable.  A string is a sequence here: <<>> is "".
encode_image(path) ==
    IF path \in ReadableImages THEN <<"data:image/png;base64,", path>> ELSE <<>>

\* the score rendered as a visual gauge showing its value
svg_score_gauge(score) == [kind |-> "gauge", value |-> score]

\* the donut fed by the priority distribution
svg_priority_donut(dist) == [kind |-> "donut", counts |-> dist]

(***************************************************************************)
(* String operations on page labels                                        *)
(***************************************************************************)
\* str.lower() on one character of the modelled alphabet
LowerChar(c) ==
    CASE c = "A" -> "a"
      [] c = "B" -> "b"
      [] c = "P" -> "p"
      [] OTHER   -> c

\* str.replace(old, new) for a one-character old
ReplaceChar(s, old, new) == [i \in 1..Len(s) |-> IF s[i] = old THEN new ELSE s[i]]

Lower(s) == [i \in 1..Len(s) |-> LowerChar(s[i])]

\* the decimal digit of i, for the f"Page {i+1}" default (i < 10)
Digit(i) == <<"0", "1", "2", "3", "4", "5", "6", "7", "8", "9">>[i + 1]

\* page.get("page_type", f"Page {i+1}") for the page at 1-based position i
PageType(page, i) == Get(page, "page_type", <<"P", "a", "g", "e", " ", Digit(i)>>)

\* page_type.lower().replace(" ", "-").replace("/", "-")
PageId(page_type) == ReplaceChar(ReplaceChar(Lower(page_type), " ", "-"), "/", "-")

\* f"{page_score:.1f}": quarters to tenths, ties to even as the float format does
Format1f(score) == RoundHalfEven(score * 10, 4)

(***************************************************************************)
(* generate_html (lines 235-630)                                           *)
(***************************************************************************)
\* sum(len(p.get("findings", [])) for p in pages), line 247
TotalFindings(pages) ==
    SumSeq([i \in 1..Len(pages) |-> Len(Get(pages[i], "findings", <<>>))])

\* the generator expression of line 268
CriticalHigh(pages) ==
    SumSeq([i \in 1..Len(pages) |->
        LET fs == Get(pages[i], "findings", <<>>)
        IN  Cardinality({j \in 1..Len(fs) :
                            /\ "priority" \in DOMAIN fs[j]
                            /\ fs[j].priority \in {"P0", "P1"}})])

\* lines 236-239: the header fields and their defaults; now is the date
\* datetime.now() returns during the call
HeaderHtml(d, now) ==
    LET pages == Get(d, "pages", <<>>)
    IN  [kind           |-> "header",
         gauge          |-> svg_score_gauge(Get(d, "overall_score", 0)),
         site_name      |-> Get(d, "site_name", Get(d, "site_url", "Unknown")),
         site_url       |-> Get(d, "site_url", ""),
         platform       |-> Get(d, "platform", "Unknown"),
         audit_date     |-> Get(d, "audit_date", now),
         total_pages    |-> Len(pages),
         total_findings |-> TotalFindings(pages),
         critical_high  |-> CriticalHigh(pages)]

\* ExecHtml without the conditional of line 279
ExecHtml_Always(d) ==
    <<[kind |-> "executive-summary", text |-> Get(d, "executive_summary", "")]>>

\* lines 274-279
ExecHtml(d) ==
    LET executive_summary == Get(d, "executive_summary", "")
    IN  IF executive_summary # ""
        THEN <<[kind |-> "executive-summary", text |-> executive_summary]>>
        ELSE <<>>

\* lines 291-315
AnalyticsHtml(dist) ==
    [kind |-> "analytics-grid", donut |-> svg_priority_donut(dist)]

\* one card of the loop of lines 319-328
TopFindingCard(f) ==
    [kind        |-> "finding-card",
     priority    |-> Get(f, "priority", "P2"),
     title       |-> Get(f, "title", ""),
     description |-> Get(f, "description", "")]

\* TopSlice without the [:5]
TopSlice_All(top_findings) == top_findings

\* top_findings[:5]
TopSlice(top_findings) == SubSeq(top_findings, 1, Min(5, Len(top_findings)))

\* lines 317-334
TopSection(d) ==
    LET shown == TopSlice(Get(d, "top_findings", <<>>))
        cards == [i \in 1..Len(shown) |-> TopFindingCard(shown[i])]
    IN  IF cards # <<>>
        THEN <<[kind |-> "top-findings", cards |-> cards]>>
        ELSE <<>>

\* PageNavLink whose href skips the two replace() calls
PageNavLink_NoReplace(page, i) ==
    LET page_type  == PageType(page, i)
        page_score == Get(page, "page_score", 0)
    IN  [kind   |-> "page-nav-link",
         href   |-> Lower(page_type),
         target |-> Lower(page_type),
         label  |-> page_type,
         score  |-> Format1f(page_score)]

\* one link of the loop of lines 338-343
PageNavLink(page, i) ==
    LET page_type  == PageType(page, i)
        page_id    == PageId(page_type)
        page_score == Get(page, "page_score", 0)
    IN  [kind   |-> "page-nav-link",
         href   |-> page_id,
         target |-> page_id,
         label  |-> page_type,
         score  |-> Format1f(page_score)]

\* PageNavHtml without the conditional of line 345
PageNavHtml_Always(pages) ==
    <<[kind |-> "page-nav", links |-> [i \in 1..Len(pages) |-> PageNavLink(pages[i], i)]]>>

\* lines 336-345
PageNavHtml(pages) ==
    LET items == [i \in 1..Len(pages) |-> PageNavLink(pages[i], i)]
    IN  IF items # <<>>
        THEN <<[kind |-> "page-nav", links |-> items]>>
        ELSE <<>>

\* ScreenshotHtml emitting the block only when both images are present
ScreenshotHtml_BothOnly(page, page_id) ==
    LET desktop_img == encode_image(Get(page, "desktop_screenshot_path", ""))
        mobile_img  == encode_image(Get(page, "mobile_screenshot_path", ""))
        has_desktop == desktop_img # <<>>
        has_mobile  == mobile_img # <<>>
        desktop_tab == IF has_desktop
                       THEN <<[label |-> "Desktop", active |-> TRUE,
                               panel |-> page_id \o <<"-desktop">>]>>
                       ELSE <<>>
        desktop_panel == IF has_desktop
                         THEN <<[kind |-> "screenshot-panel", active |-> TRUE,
                                 id |-> page_id \o <<"-desktop">>,
                                 frame |-> "desktop", src |-> desktop_img]>>
                         ELSE <<>>
        mobile_tab == IF has_mobile
                      THEN <<[label |-> "Mobile", active |-> ~has_desktop,
                              panel |-> page_id \o <<"-mobile">>]>>
                      ELSE <<>>
        mobile_panel == IF has_mobile
                        THEN <<[kind |-> "screenshot-panel", active |-> ~has_desktop,
                                id |-> page_id \o <<"-mobile">>,
                                frame |-> "mobile", src |-> mobile_img]>>
                        ELSE <<>>
    IN  IF has_desktop /\ has_mobile
        THEN <<[kind |-> "screenshot-tabs", tabs |-> desktop_tab \o mobile_tab]>>
             \o desktop_panel \o mobile_panel
        ELSE <<>>

\* lines 355-385
ScreenshotHtml(page, page_id) ==
    LET desktop_img == encode_image(Get(page, "desktop_screenshot_path", ""))
        mobile_img  == encode_image(Get(page, "mobile_screenshot_path", ""))
        has_desktop == desktop_img # <<>>
        has_mobile  == mobile_img # <<>>
        desktop_tab == IF has_desktop
                       THEN <<[label |-> "Desktop", active |-> TRUE,
                               panel |-> page_id \o <<"-desktop">>]>>
                       ELSE <<>>
        desktop_panel == IF has_desktop
                         THEN <<[kind |-> "screenshot-panel", active |-> TRUE,
                                 id |-> page_id \o <<"-desktop">>,
                                 frame |-> "desktop", src |-> desktop_img]>>
                         ELSE <<>>
        mobile_tab == IF has_mobile
                      THEN <<[label |-> "Mobile", active |-> ~has_desktop,
                              panel |-> page_id \o <<"-mobile">>]>>
                      ELSE <<>>
        mobile_panel == IF has_mobile
                        THEN <<[kind |-> "screenshot-panel", active |-> ~has_desktop,
                                id |-> page_id \o <<"-mobile">>,
                                frame |-> "mobile", src |-> mobile_img]>>
                        ELSE <<>>
    IN  IF has_desktop \/ has_mobile
        THEN <<[kind |-> "screenshot-tabs", tabs |-> desktop_tab \o mobile_tab]>>
             \o desktop_panel \o mobile_panel
        ELSE <<>>

\* one card of the loop of lines 389-407
FindingItem(f) ==
    [kind           |-> "finding-item",
     score          |-> Get(f, "score", 0),
     priority       |-> Get(f, "priority", "P2"),
     lens           |-> Get(f, "lens", ""),
     criterion_id   |-> Get(f, "criterion_id", ""),
     criterion_name |-> Get(f, "criterion_name", ""),
     issue          |-> Get(f, "issue", ""),
     recommendation |-> Get(f, "recommendation", "")]

\* lines 387-407 and the conditional of line 419
FindingsList(page) ==
    LET fs == Get(page, "findings", <<>>)
        findings_cards == [j \in 1..Len(fs) |-> FindingItem(fs[j])]
    IN  IF findings_cards # <<>>
        THEN findings_cards
        ELSE <<[kind |-> "placeholder", text |-> "No findings for this page."]>>

\* one section of the loop of lines 349-421
PageSection(page, i) ==
    LET page_type == PageType(page, i)
        page_id   == PageId(page_type)
    IN  [kind        |-> "page-section",
         id          |-> page_id,
         title       |-> page_type,
         gauge       |-> svg_score_gauge(Get(page, "page_score", 0)),
         url         |-> Get(page, "url", ""),
         screenshots |-> ScreenshotHtml(page, page_id),
         findings    |-> FindingsList(page)]

PagesHtml(pages) == [i \in 1..Len(pages) |-> PageSection(pages[i], i)]

\* ", ".join(issue.get("affected_pages", [])): the labels in list order
\* (the separator carries no information and is left out)
CrossCard(issue) ==
    [kind        |-> "finding-card",
     priority    |-> Get(issue, "priority", "P2"),
     title       |-> Get(issue, "title", ""),
     affected    |-> Get(issue, "affected_pages", <<>>),
     description |-> Get(issue, "description", "")]

\* lines 423-443
CrossHtml(d) ==
    LET cross_cutting == Get(d, "cross_cutting_issues", <<>>)
    IN  IF cross_cutting # <<>>
        THEN <<[kind  |-> "cross-cutting",
                cards |-> [i \in 1..Len(cross_cutting) |-> CrossCard(cross_cutting[i])]]>>
        ELSE <<>>

\* (val or "").lower() on the tier words of the modelled documents
LowerTier(val) ==
    CASE val = "High"   -> "high"
      [] val = "Medium" -> "medium"
      [] val = "Low"    -> "low"
      [] OTHER          -> val

\* lines 446-449
impact_tag(val) ==
    LET v == LowerTier(val)
    IN  [cls  |-> IF v = "high" THEN "tag-high"
                  ELSE IF v = "medium" THEN "tag-medium" ELSE "tag-low",
         text |-> val]

\* lines 451-454
effort_tag(val) ==
    LET v == LowerTier(val)
    IN  [cls  |-> IF v = "low" THEN "tag-low"
                  ELSE IF v = "medium" THEN "tag-medium" ELSE "tag-high",
         text |-> val]

\* lines 456-467
action_cards(items) ==
    IF items # <<>>
    THEN [i \in 1..Len(items) |->
            [kind   |-> "action-item",
             action |-> Get(items[i], "action", ""),
             page   |-> Get(items[i], "page", ""),
             impact |-> impact_tag(Get(items[i], "impact", "")),
             effort |-> effort_tag(Get(items[i], "effort", ""))]]
    ELSE <<[kind |-> "placeholder", text |-> "None identified."]>>

\* lines 469-485: [kind -> "empty"] stands for the {} default of line 245
ActionHtml(d) ==
    LET action_plan == Get(d, "action_plan", [kind |-> "empty"])
    IN  [kind  |-> "action-plan",
         lists |-> <<[title |-> "Quick Wins",
                      body  |-> action_cards(Get(action_plan, "quick_wins", <<>>))],
                     [title |-> "Medium-Term Improvements",
                      body  |-> action_cards(Get(action_plan, "medium_term", <<>>))],
                     [title |-> "Strategic Initiatives",
                      body  |-> action_cards(Get(action_plan, "strategic", <<>>))]>>]

\* lines 487-492
FooterHtml == [kind |-> "footer"]

\* lines 282-289 and 494-602: the values handed to the chart script
JsBlock(pages, lens_avgs_, score_dist_) ==
    [kind        |-> "script",
     pageLabels  |-> [i \in 1..Len(pages) |-> PageType(pages[i], i)],
     pageScores  |-> [i \in 1..Len(pages) |-> Get(pages[i], "page_score", 0)],
     lensValues  |-> [i \in 1..Len(LensOrder) |-> lens_avgs_[i].avg],
     scoreCounts |-> [k \in 1..5 |-> score_dist_[k]]]

\* lines 604-630: the document in the order of assembly
generate_html(d, now) ==
    LET pages         == Get(d, "pages", <<>>)
        lens_avgs_    == compute_lens_averages(pages)
        score_dist_   == compute_score_distribution(pages)
        priority_dist_ == compute_priority_distribution(pages)
    IN  <<HeaderHtml(d, now)>>
        \o ExecHtml(d)
        \o <<AnalyticsHtml(priority_dist_)>>
        \o TopSection(d)
        \o PageNavHtml(pages)
        \o PagesHtml(pages)
        \o CrossHtml(d)
        \o <<ActionHtml(d)>>
        \o <<FooterHtml>>
        \o <<JsBlock(pages, lens_avgs_, score_dist_)>>

(***************************************************************************)
(* Input documents                                                         *)
(***************************************************************************)
\* pages with up to k findings drawn from F, with or without a "findings" key
PagesOver(F, k) ==
    {[url |-> "u"]}
    \cup {[url |-> "u", findings |-> fs] : fs \in SeqUpTo(F, k)}

\* page lists of up to MaxPages pages: a first page drawn from First, the
\* pages after it from Later
PageLists(First, Later) ==
    {<<>>} \cup {<<p>> \o rest : p \in First, rest \in SeqUpTo(Later, MaxPages - 1)}

\* documents that differ in their findings only: up to MaxFindings findings
\* on the first page, at most one on each page after it
DocsOver(F) ==
    {[audit_date |-> "2026-02-14", pages |-> ps] :
        ps \in PageLists(PagesOver(F, MaxFindings), PagesOver(F, 1))}

\* findings that differ in priority: the four tiers, an unknown tier, none
PriorityFindings ==
    {[criterion_id |-> "H1"]}
    \cup {[criterion_id |-> "H1", priority |-> p] : p \in Tiers \cup {"urgent"}}

\* findings that differ in score (quarters): 0.25, 2.5, 2.75, 3.5, 4.5, 5.5, none
ScoreFindings ==
    {[criterion_id |-> "H1"]}
    \cup {[criterion_id |-> "H1", score |-> s] : s \in {1, 10, 11, 14, 18, 22}}

\* findings that differ in lens and score: two canonical lenses, a
\* non-canonical one, the empty one, none
LensFindings ==
    {[lens |-> "clarity", score |-> 1],
     [lens |-> "clarity", score |-> 16],
     [lens |-> "clarity"],
     [lens |-> "technical", score |-> 10],
     [lens |-> "other", score |-> 16],
     [lens |-> "", score |-> 16],
     [score |-> 16]}

\* pages that differ in label and in their findings
LabelPages(k) ==
    LET Labelled(p) == {p} \cup {p @@ [page_type |-> t] :
                                    t \in {<<"A", " ", "b">>, <<"a", "/", "B">>}}
    IN  UNION {Labelled(p) : p \in PagesOver({[criterion_id |-> "H1", priority |-> "P0"],
                                             [criterion_id |-> "H2", score |-> 8]}, k)}

\* pages that differ in their screenshot paths: absent, empty, a readable
\* file, a missing file
ShotPages ==
    LET DPaths == {"", "desktop.png", "gone.png"}
        MPaths == {"", "mobile.png", "gone.png"}
    IN  {[url |-> "u"]}
        \cup {[url |-> "u", desktop_screenshot_path |-> d] : d \in DPaths}
        \cup {[url |-> "u", mobile_screenshot_path |-> m] : m \in MPaths}
        \cup {[url |-> "u", desktop_screenshot_path |-> d, mobile_screenshot_path |-> m] :
                 d \in DPaths, m \in MPaths}

TopFindings ==
    {[title |-> "T1", priority |-> "P0", description |-> "d"], [title |-> "T2"]}

\* every subset of the optional document-level fields
Optional(key, values) == {[absent |-> TRUE]} \cup {[v |-> val, k |-> key] : val \in values}

RECURSIVE BuildDoc(_, _)
BuildDoc(choices, acc) ==
    IF choices = <<>> THEN acc
    ELSE LET c == Head(choices)
         IN  BuildDoc(Tail(choices),
                      IF "absent" \in DOMAIN c THEN acc ELSE acc @@ (c.k :> c.v))

MetaDocs ==
    {BuildDoc(<<a, b, c, e, f, g, h, i>>, [site_url |-> "https://example.com"]) :
        a \in Optional("site_name", {"Example Store"}),
        b \in Optional("platform", {"Shopify"}),
        c \in Optional("audit_date", {"2026-02-14"}),
        e \in Optional("overall_score", {13}),
        f \in Optional("executive_summary", {"", "Summary."}),
        g \in Optional("pages", {<<>>, <<[page_type |-> <<"A">>, page_score |-> 14]>>}),
        h \in Optional("top_findings", {<<[title |-> "T1"]>>}),
        i \in Optional("cross_cutting_issues",
                       {<<>>, <<[title |-> "X", affected_pages |-> <<"A", "B">>]>>})}

ActionDocs ==
    LET Items == {<<>>, <<[action |-> "a", impact |-> "High", effort |-> "low"]>>,
                  <<[page |-> "A"], [action |-> "b", effort |-> "Medium"]>>}
    IN  {[action_plan |-> BuildDoc(<<q, m, s>>, [note |-> "n"])] :
            q \in Optional("quick_wins", Items),
            m \in Optional("medium_term", Items),
            s \in Optional("strategic", Items)}

RenderDocs ==
    {[pages |-> ps] : ps \in PageLists(LabelPages(MaxFindings), LabelPages(1))}
    \cup {[pages |-> ps] : ps \in PageLists(ShotPages, ShotPages)}
    \cup {[site_name |-> "S", top_findings |-> ts] : ts \in SeqUpTo(TopFindings, MaxTop)}
    \cup MetaDocs
    \cup ActionDocs

\* what args.input can hold besides a document
Unreadable == [unreadable |-> TRUE]
Malformed == [malformed |-> TRUE]

\* valid JSON that is not an object: the text "[]".  json.load returns a
\* list, and data.get of line 236 raises AttributeError
TopLevelArray == [json_array |-> <<>>]

\* generate_html raises on d
Raises(d) == "json_array" \in DOMAIN d

\* the dates datetime.now() can fall on
Dates == {"2026-02-14", "2026-02-15"}

(***************************************************************************)
(* main (lines 633-648)                                                    *)
(***************************************************************************)
NoData == [unbound |-> TRUE]
NoFile == [exists |-> FALSE, content |-> <<>>]
OldFile == [exists |-> TRUE, content |-> <<[kind |-> "old-report"]>>]
NoDist == [unbound |-> TRUE]

InitWith(Docs, Files) ==
    /\ pc = "start"
    /\ input_file \in Docs \cup {Unreadable, Malformed, TopLevelArray}
    /\ data = NoData
    /\ lens_avgs = <<>>
    /\ score_dist = NoDist
    /\ priority_dist = NoDist
    /\ html = <<>>
    /\ out_file \in Files
    /\ out_open = FALSE
    /\ stdout = <<>>
    /\ error = "none"

\* lines 640-641, the file opens and parses
LoadInput ==
    /\ pc = "start"
    /\ input_file \notin {Unreadable, Malformed}
    /\ data' = input_file
    /\ pc' = "loaded"
    /\ UNCHANGED <<input_file, lens_avgs, score_dist, priority_dist, html,
                   out_file, out_open, stdout, error>>

\* LoadFail of a main that opens the output before it reads the input
LoadFail_OutputFirst ==
    /\ pc = "start"
    /\ input_file \in {Unreadable, Malformed}
    /\ error' = IF input_file = Unreadable THEN "OSError" ELSE "JSONDecodeError"
    /\ out_file' = [exists |-> TRUE, content |-> <<>>]
    /\ pc' = "failed"
    /\ UNCHANGED <<input_file, data, lens_avgs, score_dist, priority_dist, html,
                   out_open, stdout>>

\* lines 640-641, open() or json.load() raises
LoadFail ==
    /\ pc = "start"
    /\ input_file \in {Unreadable, Malformed}
    /\ error' = IF input_file = Unreadable THEN "OSError" ELSE "JSONDecodeError"
    /\ pc' = "failed"
    /\ UNCHANGED <<input_file, data, lens_avgs, score_dist, priority_dist, html,
                   out_file, out_open, stdout>>

\* every f.get(key, default) of a finding written back as setdefault
SetDefaults(d) ==
    LET Fill(f) == [k \in DOMAIN f \cup {"score", "priority", "lens"} |->
                       IF k \in DOMAIN f THEN f[k]
                       ELSE IF k = "score" THEN 0
                       ELSE IF k = "priority" THEN "P2" ELSE ""]
        FillPage(p) == [k \in DOMAIN p |->
                           IF k = "findings"
                           THEN [j \in 1..Len(p.findings) |-> Fill(p.findings[j])]
                           ELSE p[k]]
    IN  [k \in DOMAIN d |->
            IF k = "pages" THEN [i \in 1..Len(d.pages) |-> FillPage(d.pages[i])]
            ELSE d[k]]

\* Render with the defaults written back into the document
Render_SetDefault ==
    /\ pc = "loaded"
    /\ ~Raises(data)
    /\ \E now \in Dates :
          html' = generate_html(data, now)
    /\ lens_avgs' = compute_lens_averages(Get(data, "pages", <<>>))
    /\ score_dist' = compute_score_distribution(Get(data, "pages", <<>>))
    /\ priority_dist' = compute_priority_distribution(Get(data, "pages", <<>>))
    /\ data' = SetDefaults(data)
    /\ pc' = "rendered"
    /\ UNCHANGED <<input_file, out_file, out_open, stdout, error>>

\* line 643, generate_html returns
Render ==
    /\ pc = "loaded"
    /\ ~Raises(data)
    /\ \E now \in Dates :
          html' = generate_html(data, now)
    /\ lens_avgs' = compute_lens_averages(Get(data, "pages", <<>>))
    /\ score_dist' = compute_score_distribution(Get(data, "pages", <<>>))
    /\ priority_dist' = compute_priority_distribution(Get(data, "pages", <<>>))
    /\ pc' = "rendered"
    /\ UNCHANGED <<input_file, data, out_file, out_open, stdout, error>>

\* line 643, generate_html raises
RenderFail ==
    /\ pc = "loaded"
    /\ Raises(data)
    /\ error' = "AttributeError"
    /\ pc' = "failed"
    /\ UNCHANGED <<input_file, data, lens_avgs, score_dist, priority_dist, html,
                   out_file, out_open, stdout>>

\* line 645, open(args.output, "w") creates or truncates the file
OpenOutput ==
    /\ pc = "rendered"
    /\ out_file' = [exists |-> TRUE, content |-> <<>>]
    /\ out_open' = TRUE
    /\ pc' = "opened"
    /\ UNCHANGED <<input_file, data, lens_avgs, score_dist, priority_dist, html,
                   stdout, error>>

\* line 645, open(args.output, "w") raises
OpenOutputFail ==
    /\ pc = "rendered"
    /\ error' = "OSError"
    /\ pc' = "failed"
    /\ UNCHANGED <<input_file, data, lens_avgs, score_dist, priority_dist, html,
                   out_file, out_open, stdout>>

\* line 646 and the flush at the end of the with block
WriteOutput ==
    /\ pc = "opened"
    /\ out_file' = [exists |-> TRUE, content |-> html]
    /\ out_open' = FALSE
    /\ pc' = "written"
    /\ UNCHANGED <<input_file, data, lens_avgs, score_dist, priority_dist, html,
                   stdout, error>>

\* WriteFail of a main that catches the error and starts the write again
WriteFail_Retry ==
    /\ pc = "opened"
    /\ out_open' = FALSE
    /\ error' = "OSError"
    /\ pc' = "rendered"
    /\ UNCHANGED <<input_file, data, lens_avgs, score_dist, priority_dist, html,
                   out_file, stdout>>

\* line 646, the write raises; the with block closes the handle
WriteFail ==
    /\ pc = "opened"
    /\ out_open' = FALSE
    /\ error' = "OSError"
    /\ pc' = "failed"
    /\ UNCHANGED <<input_file, data, lens_avgs, score_dist, priority_dist, html,
                   out_file, stdout>>

\* line 648
PrintConfirmation ==
    /\ pc = "written"
    /\ stdout' = Append(stdout, "Report generated")
    /\ pc' = "done"
    /\ UNCHANGED <<input_file, data, lens_avgs, score_dist, priority_dist, html,
                   out_file, out_open, error>>

Next ==
    \/ LoadInput
    \/ LoadFail
    \/ Render
    \/ RenderFail
    \/ OpenOutput
    \/ OpenOutputFail
    \/ WriteOutput
    \/ WriteFail
    \/ PrintConfirmation

\* documents that exercise the renderer
Init == InitWith(RenderDocs, {NoFile, OldFile})
Spec == Init /\ [][Next]_vars

\* documents that exercise compute_priority_distribution
InitPriority == InitWith(DocsOver(PriorityFindings), {NoFile})
SpecPriority == InitPriority /\ [][Next]_vars

\* documents that exercise compute_score_distribution
InitScore == InitWith(DocsOver(ScoreFindings), {NoFile})
SpecScore == InitScore /\ [][Next]_vars

\* documents that exercise compute_lens_averages
InitLens == InitWith(DocsOver(LensFindings), {NoFile})
SpecLens == InitLens /\ [][Next]_vars

(***************************************************************************)
(* Vocabulary of the properties                                            *)
(***************************************************************************)
\* generate_html has returned
HasRendered == html # <<>>

\* the pages generate_html reads
Pages == Get(data, "pages", <<>>)

\* every finding of every page, in document order
AllFindings ==
    Concat([i \in 1..Len(Pages) |-> Get(Pages[i], "findings", <<>>)])

\* the elements of the output of one kind, in output order
Blocks(kind) == SelectSeq(html, LAMBDA e : e.kind = kind)

\* how many findings satisfy P
CountFindings(P(_)) == Cardinality({i \in 1..Len(AllFindings) : P(AllFindings[i])})

Abs(x) == IF x < 0 THEN -x ELSE x

\* the links of the page-nav element, none when the element is absent
NavLinks ==
    LET blocks == Blocks("page-nav")
    IN  Concat([i \in 1..Len(blocks) |-> blocks[i].links])

\* the page sections of the output, in output order
Sections == Blocks("page-section")

(***************************************************************************)
(* C1  compute_priority_distribution counts every finding under exactly    *)
(* one tier: its own priority when that is one of P0..P3, and P2 when the  *)
(* priority is missing or unknown.                                         *)
(***************************************************************************)
C1_TierOf(f) ==
    IF "priority" \in DOMAIN f /\ f.priority \in Tiers THEN f.priority ELSE "P2"

C1_EveryFindingCounted ==
    HasRendered =>
        \A t \in Tiers :
            priority_dist[t] = CountFindings(LAMBDA f : C1_TierOf(f) = t)

(***************************************************************************)
(* C2  The five bucket counts of compute_score_distribution sum to the     *)
(* number of findings of all pages, which is the 'Findings' count of the   *)
(* header, whatever the scores are (missing, below 1, above 5).            *)
(***************************************************************************)
C2_BucketsSumToTotal ==
    HasRendered =>
        /\ SumSeq([k \in 1..5 |-> score_dist[k]]) = Len(AllFindings)
        /\ html[1].kind = "header"
        /\ html[1].total_findings = SumSeq([k \in 1..5 |-> score_dist[k]])

\* two pages with findings, among them one without score, one below 1 and
\* one above 5
C2_Witness ==
    /\ HasRendered
    /\ Len(Pages) = 2
    /\ \A i \in 1..2 : Get(Pages[i], "findings", <<>>) # <<>>
    /\ CountFindings(LAMBDA f : "score" \notin DOMAIN f) > 0
    /\ CountFindings(LAMBDA f : "score" \in DOMAIN f /\ f.score < 4) > 0
    /\ CountFindings(LAMBDA f : "score" \in DOMAIN f /\ f.score > 20) > 0

(***************************************************************************)
(* C3  Each finding is counted in the bucket obtained by rounding its      *)
(* score to the nearest integer, a tie going to the even integer, and      *)
(* clamping the result to 1..5; a finding without score is counted in      *)
(* bucket 3.                                                               *)
(***************************************************************************)
\* n is the integer nearest to q quarters, the even one of two equally near
C3_IsNearestEven(n, q) ==
    \A m \in (n - 2)..(n + 2) :
        m # n => \/ Abs(4 * n - q) < Abs(4 * m - q)
                 \/ Abs(4 * n - q) = Abs(4 * m - q) /\ n % 2 = 0

C3_Bucket(f) ==
    IF "score" \notin DOMAIN f THEN 3
    ELSE LET n == CHOOSE n \in 0..6 : C3_IsNearestEven(n, f.score)
         IN  IF n < 1 THEN 1 ELSE IF n > 5 THEN 5 ELSE n

C3_RoundedClampedBuckets ==
    HasRendered =>
        LET all    == AllFindings
            bucket == [i \in 1..Len(all) |-> C3_Bucket(all[i])]
        IN  \A k \in 1..5 :
                score_dist[k] = Cardinality({i \in 1..Len(all) : bucket[i] = k})

\* the ties 2.5, 3.5 and 4.5 in one document: buckets 2, 4 and 4
C3_Witness ==
    /\ HasRendered
    /\ \A q \in {10, 14, 18} :
          CountFindings(LAMBDA f : "score" \in DOMAIN f /\ f.score = q) = 1
    /\ Len(AllFindings) = 3
    /\ score_dist[2] = 1
    /\ score_dist[4] = 2

(***************************************************************************)
(* C4  compute_lens_averages returns exactly the six lenses in the order   *)
(* clarity, relevance, friction, anxiety, urgency, technical; the value of *)
(* a lens is the mean, rounded to 2 decimals, of the scores of the         *)
(* findings tagged with it (a missing score counting as 0), and exactly 0  *)
(* when no finding is tagged with it; findings whose lens is empty,        *)
(* missing or not one of the six change no value.                          *)
(***************************************************************************)
C4_Tagged(lens) ==
    SelectSeq(AllFindings, LAMBDA f : "lens" \in DOMAIN f /\ f.lens = lens)

\* avg (hundredths) is a nearest hundredth to total/count (total in quarters)
C4_IsRoundedMean(avg, total, count) ==
    2 * Abs(avg * count - 25 * total) <= count

C4_LensAverages ==
    HasRendered =>
        /\ Len(lens_avgs) = 6
        /\ [i \in 1..6 |-> lens_avgs[i].lens]
              = <<"clarity", "relevance", "friction", "anxiety", "urgency", "technical">>
        /\ \A i \in 1..6 :
              LET tagged == C4_Tagged(lens_avgs[i].lens)
                  total  == SumSeq([j \in 1..Len(tagged) |-> Get(tagged[j], "score", 0)])
              IN  IF tagged = <<>>
                  THEN lens_avgs[i].avg = 0
                  ELSE C4_IsRoundedMean(lens_avgs[i].avg, total, Len(tagged))

\* a lens with two findings on different pages next to a finding whose lens
\* is empty, missing or non-canonical
C4_Witness ==
    /\ HasRendered
    /\ Len(Pages) = 2
    /\ \A i \in 1..2 :
          \E j \in 1..Len(Get(Pages[i], "findings", <<>>)) :
              Get(Pages[i].findings[j], "lens", "") = "clarity"
    /\ CountFindings(LAMBDA f : Get(f, "lens", "") \in {"", "other"}) > 0
    /\ lens_avgs[1].avg > 0
    /\ lens_avgs[6].avg = 0

(***************************************************************************)
(* C5  With an empty or absent pages list the six lens averages, the five  *)
(* score counts and the four priority counts are all 0, and the output     *)
(* has no page section, no page-nav element and no page-nav link, while    *)
(* the header still shows the overall score.                               *)
(***************************************************************************)
C5_ZeroPages ==
    (HasRendered /\ Pages = <<>>) =>
        /\ \A i \in 1..Len(lens_avgs) : lens_avgs[i].avg = 0
        /\ Len(lens_avgs) = 6
        /\ \A k \in 1..5 : score_dist[k] = 0
        /\ \A t \in Tiers : priority_dist[t] = 0
        /\ Blocks("page-section") = <<>>
        /\ Blocks("page-nav") = <<>>
        /\ NavLinks = <<>>
        /\ html[1].kind = "header"
        /\ html[1].gauge.kind = "gauge"
        /\ html[1].gauge.value = Get(data, "overall_score", 0)

\* pages=[] with an overall score, as in the example of the specification
C5_Witness ==
    /\ HasRendered
    /\ "pages" \in DOMAIN data
    /\ data.pages = <<>>
    /\ "overall_score" \in DOMAIN data
    /\ html[1].gauge.value = data.overall_score

(***************************************************************************)
(* C6  For n top findings the output has exactly min(n, 5) top-finding     *)
(* cards: the first min(n, 5) entries of the input, in input order.        *)
(***************************************************************************)
\* the cards of the top-findings block, none when the block is absent
TopCards ==
    LET blocks == Blocks("top-findings")
    IN  Concat([i \in 1..Len(blocks) |-> blocks[i].cards])

C6_TopFindingsCapped ==
    HasRendered =>
        LET top == Get(data, "top_findings", <<>>)
            n   == IF Len(top) < 5 THEN Len(top) ELSE 5
        IN  /\ Len(Blocks("top-findings")) <= 1
            /\ Len(TopCards) = n
            /\ \A i \in 1..n :
                  /\ TopCards[i].title = Get(top[i], "title", "")
                  /\ TopCards[i].priority = Get(top[i], "priority", "P2")

\* six top findings, the sixth unlike the fifth
C6_Witness ==
    /\ HasRendered
    /\ "top_findings" \in DOMAIN data
    /\ Len(data.top_findings) = 6
    /\ data.top_findings[6] # data.top_findings[5]
    /\ data.top_findings[1] # data.top_findings[2]
    /\ Len(TopCards) = 5

(***************************************************************************)
(* C7  generate_html is deterministic: the output of a run equals the      *)
(* output of a run on the same document on any other date, also when       *)
(* audit_date is absent.                                                   *)
(***************************************************************************)
C7_SameOutputOnAnyDate ==
    HasRendered => \A now \in Dates : html = generate_html(data, now)

(***************************************************************************)
(* C8  The screenshot block of a page depends only on which of the two     *)
(* images embed to a non-empty value.  As claimed: both -> a tab bar with  *)
(* the tabs Desktop and Mobile and two panels; exactly one -> one panel    *)
(* and no tab bar; neither -> no screenshot markup.                        *)
(***************************************************************************)
C8_HasDesktop(page) == encode_image(Get(page, "desktop_screenshot_path", "")) # <<>>
C8_HasMobile(page) == encode_image(Get(page, "mobile_screenshot_path", "")) # <<>>

\* the tab labels of the tab bars of a screenshot block, in order
C8_TabBars(shots) == SelectSeq(shots, LAMBDA e : e.kind = "screenshot-tabs")
C8_Tabs(shots) ==
    LET bars == C8_TabBars(shots)
    IN  Concat([i \in 1..Len(bars) |-> [j \in 1..Len(bars[i].tabs) |-> bars[i].tabs[j].label]])

\* the device frames of the panels of a screenshot block, in order
C8_Panels(shots) ==
    LET panels == SelectSeq(shots, LAMBDA e : e.kind = "screenshot-panel")
    IN  [i \in 1..Len(panels) |-> panels[i].frame]

C8_BothOrNeither(i) ==
    LET shots == Sections[i].screenshots
    IN  /\ (C8_HasDesktop(Pages[i]) /\ C8_HasMobile(Pages[i])) =>
              /\ Len(C8_TabBars(shots)) = 1
              /\ C8_Tabs(shots) = <<"Desktop", "Mobile">>
              /\ C8_Panels(shots) = <<"desktop", "mobile">>
        /\ (~C8_HasDesktop(Pages[i]) /\ ~C8_HasMobile(Pages[i])) => shots = <<>>

C8_ExactlyOne(i) == C8_HasDesktop(Pages[i]) # C8_HasMobile(Pages[i])

C8_OnePanelNoTabBar ==
    HasRendered =>
        \A i \in 1..Len(Pages) :
            /\ C8_BothOrNeither(i)
            /\ C8_ExactlyOne(i) =>
                  /\ C8_Panels(Sections[i].screenshots)
                        = IF C8_HasDesktop(Pages[i]) THEN <<"desktop">> ELSE <<"mobile">>
                  /\ C8_TabBars(Sections[i].screenshots) = <<>>

(***************************************************************************)
(* C8 as amended: exactly one image present -> one panel for that image    *)
(* and a tab bar with the single tab of that image; the cases both and     *)
(* neither as claimed.                                                     *)
(***************************************************************************)
C8_OnePanelOneTab ==
    HasRendered =>
        \A i \in 1..Len(Pages) :
            /\ C8_BothOrNeither(i)
            /\ C8_ExactlyOne(i) =>
                  /\ C8_Panels(Sections[i].screenshots)
                        = IF C8_HasDesktop(Pages[i]) THEN <<"desktop">> ELSE <<"mobile">>
                  /\ Len(C8_TabBars(Sections[i].screenshots)) = 1
                  /\ C8_Tabs(Sections[i].screenshots)
                        = IF C8_HasDesktop(Pages[i]) THEN <<"Desktop">> ELSE <<"Mobile">>

\* a page whose desktop file is missing and whose mobile file embeds, next
\* to a page with both images
C8_Witness ==
    /\ HasRendered
    /\ Len(Pages) = 2
    /\ Get(Pages[1], "desktop_screenshot_path", "") = "gone.png"
    /\ ~C8_HasDesktop(Pages[1])
    /\ C8_HasMobile(Pages[1])
    /\ C8_HasDesktop(Pages[2])
    /\ C8_HasMobile(Pages[2])
    /\ Len(Sections[1].screenshots) = 2

(***************************************************************************)
(* C9  An absent optional field is replaced by its safe default (empty     *)
(* string for text, zero for a score, "P2" for a priority), the same       *)
(* default wherever the field is read: the aggregates and the finding      *)
(* items of a document equal those of the document in which every absent   *)
(* field of a finding is written out with its default.                     *)
(***************************************************************************)
C9_FillFinding(f) ==
    [score          |-> Get(f, "score", 0),
     priority       |-> Get(f, "priority", "P2"),
     lens           |-> Get(f, "lens", ""),
     criterion_id   |-> Get(f, "criterion_id", ""),
     criterion_name |-> Get(f, "criterion_name", ""),
     issue          |-> Get(f, "issue", ""),
     recommendation |-> Get(f, "recommendation", "")]

C9_FillPage(page) ==
    LET fs == Get(page, "findings", <<>>)
    IN  [k \in DOMAIN page \cup {"findings"} |->
            IF k = "findings" THEN [j \in 1..Len(fs) |-> C9_FillFinding(fs[j])]
            ELSE page[k]]

C9_Filled == [i \in 1..Len(Pages) |-> C9_FillPage(Pages[i])]

C9_SameDefaultEverywhere ==
    HasRendered =>
        /\ lens_avgs = compute_lens_averages(C9_Filled)
        /\ priority_dist = compute_priority_distribution(C9_Filled)
        /\ \A i \in 1..Len(Pages) : Sections[i].findings = FindingsList(C9_Filled[i])
        /\ score_dist = compute_score_distribution(C9_Filled)

(***************************************************************************)
(* C10  For n pages the output has exactly n navigation links and exactly  *)
(* n page sections, both in input order, the i-th link pointing at the id  *)
(* of the i-th section; a section lists one finding item per finding of    *)
(* its page in input order, or the placeholder when the page has none.     *)
(***************************************************************************)
C10_Label(i) ==
    IF "page_type" \in DOMAIN Pages[i] THEN Pages[i].page_type
    ELSE <<"P", "a", "g", "e", " ">> \o <<Digit(i)>>

C10_NavAndSections ==
    HasRendered =>
        /\ Len(NavLinks) = Len(Pages)
        /\ Len(Sections) = Len(Pages)
        /\ Len(Blocks("page-nav")) <= 1
        /\ \A i \in 1..Len(Pages) :
              LET fs == Get(Pages[i], "findings", <<>>)
              IN  /\ NavLinks[i].label = C10_Label(i)
                  /\ Sections[i].title = C10_Label(i)
                  /\ NavLinks[i].href = Sections[i].id
                  /\ IF fs = <<>>
                     THEN Sections[i].findings
                            = <<[kind |-> "placeholder", text |-> "No findings for this page."]>>
                     ELSE /\ Len(Sections[i].findings) = Len(fs)
                          /\ \A j \in 1..Len(fs) :
                                /\ Sections[i].findings[j].kind = "finding-item"
                                /\ Sections[i].findings[j].criterion_id
                                      = Get(fs[j], "criterion_id", "")

\* two pages with different labels, the first with two different findings,
\* the second with none
C10_Witness ==
    /\ HasRendered
    /\ Len(Pages) = 2
    /\ \A i \in 1..2 : "page_type" \in DOMAIN Pages[i]
    /\ Pages[1].page_type # Pages[2].page_type
    /\ Len(Get(Pages[1], "findings", <<>>)) = 2
    /\ Pages[1].findings[1] # Pages[1].findings[2]
    /\ Get(Pages[2], "findings", <<>>) = <<>>
    /\ Len(NavLinks) = 2
    /\ Sections[2].findings[1].kind = "placeholder"

(***************************************************************************)
(* C11  The executive-summary block is emitted iff executive_summary is    *)
(* non-empty, the top-findings block iff top_findings is non-empty, the    *)
(* cross-cutting block iff cross_cutting_issues is non-empty; the          *)
(* action-plan block is always emitted with the sub-lists quick wins,      *)
(* medium-term, strategic in that order, an empty or absent bucket showing *)
(* 'None identified.' instead of an item list.                             *)
(***************************************************************************)
C11_Bucket(key) ==
    IF "action_plan" \in DOMAIN data /\ key \in DOMAIN data.action_plan
    THEN data.action_plan[key]
    ELSE <<>>

C11_ListOk(list, key) ==
    LET items == C11_Bucket(key)
    IN  IF items = <<>>
        THEN list.body = <<[kind |-> "placeholder", text |-> "None identified."]>>
        ELSE /\ Len(list.body) = Len(items)
             /\ \A i \in 1..Len(items) :
                   /\ list.body[i].kind = "action-item"
                   /\ list.body[i].action = Get(items[i], "action", "")

C11_PresenceDriven ==
    HasRendered =>
        /\ Len(Blocks("executive-summary"))
              = IF Get(data, "executive_summary", "") # "" THEN 1 ELSE 0
        /\ Len(Blocks("top-findings"))
              = IF Get(data, "top_findings", <<>>) # <<>> THEN 1 ELSE 0
        /\ Len(Blocks("cross-cutting"))
              = IF Get(data, "cross_cutting_issues", <<>>) # <<>> THEN 1 ELSE 0
        /\ Len(Blocks("action-plan")) = 1
        /\ LET lists == Blocks("action-plan")[1].lists
           IN  /\ [i \in 1..Len(lists) |-> lists[i].title]
                    = <<"Quick Wins", "Medium-Term Improvements", "Strategic Initiatives">>
               /\ C11_ListOk(lists[1], "quick_wins")
               /\ C11_ListOk(lists[2], "medium_term")
               /\ C11_ListOk(lists[3], "strategic")

\* an action plan with a filled, an empty and an absent bucket, and none of
\* the optional blocks
C11_Witness ==
    /\ HasRendered
    /\ "action_plan" \in DOMAIN data
    /\ Len(C11_Bucket("quick_wins")) = 2
    /\ "medium_term" \in DOMAIN data.action_plan
    /\ data.action_plan.medium_term = <<>>
    /\ "strategic" \notin DOMAIN data.action_plan
    /\ Blocks("executive-summary") = <<>>
    /\ Len(Blocks("action-plan")[1].lists[1].body) = 2

(***************************************************************************)
(* C12  When the input is unreadable or not valid JSON, or generate_html   *)
(* raises, main fails before anything is rendered: every step that ends    *)
(* without rendered output leaves the output path as it was (not created,  *)
(* not truncated, not written), opens no handle and prints nothing.        *)
(***************************************************************************)
C12_FailsBeforeOutput ==
    [][(html' = <<>>) => /\ out_file' = out_file
                         /\ out_open' = FALSE
                         /\ stdout' = <<>>
                         /\ pc' \in {"loaded", "failed"}]_vars

\* the parse error with a report of an earlier run at the output path
C12_Witness ==
    /\ pc = "failed"
    /\ error = "JSONDecodeError"
    /\ out_file = OldFile
    /\ stdout = <<>>

(***************************************************************************)
(* C13  The steps of main occur in the order read, render, open and write, *)
(* print: the confirmation is printed only after the write has completed,  *)
(* a failure ends the run without retry and without confirmation, and the  *)
(* output handle is open only during the final write.                      *)
(***************************************************************************)
C13_State ==
    /\ HasRendered => data # NoData
    /\ out_open => (pc = "opened" /\ HasRendered /\ stdout = <<>>)
    /\ out_file.content # <<>> /\ out_file # OldFile => out_file.content = html
    /\ stdout # <<>> =>
          /\ stdout = <<"Report generated">>
          /\ pc = "done"
          /\ out_file = [exists |-> TRUE, content |-> html]
          /\ HasRendered
          /\ ~out_open
          /\ error = "none"
    /\ error # "none" <=> pc = "failed"

C13_Order ==
    /\ []C13_State
    /\ [][(pc \in {"failed", "done"}) => (pc' = pc)]_vars
    /\ [][(pc' = "done") => (pc = "written" /\ out_file' = out_file)]_vars

\* a write that failed after the file was opened
C13_Witness ==
    /\ pc = "failed"
    /\ error = "OSError"
    /\ HasRendered
    /\ out_file = [exists |-> TRUE, content |-> <<>>]
    /\ ~out_open
    /\ stdout = <<>>

(***************************************************************************)
(* C14  Scores are brought into [1,5] whenever they are aggregated: every  *)
(* lens average is 0 (no finding) or a value within [1,5].                 *)
(***************************************************************************)
C14_LensAveragesInRange ==
    HasRendered =>
        \A i \in 1..Len(lens_avgs) :
            lens_avgs[i].avg = 0 \/ (100 <= lens_avgs[i].avg /\ lens_avgs[i].avg <= 500)

C16_DistinctAnchors ==
    HasRendered =>
        \A i, j \in 1..Len(Sections) :
            i # j => /\ Sections[i].id # Sections[j].id
                     /\ NavLinks[i].href # NavLinks[j].href

(***************************************************************************)
(* C17  The header counts agree with the aggregates: Critical/High equals  *)
(* P0 + P1 of the priority distribution, Findings equals the sum of the    *)
(* four priority counts, Pages equals the number of page sections.         *)
(***************************************************************************)
C17_HeaderAgrees ==
    HasRendered =>
        /\ html[1].critical_high = priority_dist["P0"] + priority_dist["P1"]
        /\ html[1].total_pages = Len(Sections)
        /\ html[1].total_findings
              = priority_dist["P0"] + priority_dist["P1"]
                + priority_dist["P2"] + priority_dist["P3"]

====
